---- MODULE Spec2Model ----
(***************************************************************************)
(* Model of the batch generation orchestrator of banana-batch:             *)
(* generateImageBatchStream in services/geminiService.ts, a pool of async  *)
(* workers over a shared task queue, each slot retried with exponential    *)
(* backoff, cancellable through an AbortSignal, reporting through the      *)
(* onImage / onText / onProgress callbacks; and of what the call does      *)
(* before the pool starts: the API key check, buildHistory, the validation *)
(* of the reference images and the assembly of the current user turn.      *)
(*                                                                         *)
(* JavaScript runs every worker to its next await without interruption,    *)
(* so one action is one such synchronous segment: the call up to the       *)
(* await of Promise.all, the continuation after a provider response, the   *)
(* continuation after a backoff timer, and the user's abort.               *)
(***************************************************************************)
EXTENDS Integers, Sequences, FiniteSets, TLC

\* ------------------------------------------------------------- constants
MAX_CONCURRENT_REQUESTS == 10
MAX_RETRIES == 3
BackoffBaseMs == 1000
\* The ceiling on the estimated size of a reference image, in MiB.
MaxImageMB == 20

\* --------------------------------------------------------------- bounds
\* Spec: batchSize ranges over 1..MaxBatch, every kind of provider answer.
MaxBatch == 2
\* SpecPool: batchSize = MAX_CONCURRENT_REQUESTS + PoolExtra, so that the
\* pool is capped and freed workers come back to the queue.
PoolExtra == 2
\* SpecTurn: the current turn carries up to MaxUploads reference images.
MaxUploads == 2
\* SpecContext: the conversation holds up to MaxHistory earlier messages.
MaxHistory == 2
\* SpecStore: up to MaxDeliveries images and as many texts reach the sink.
MaxDeliveries == 3
\* SpecImport: an imported data package holds up to MaxPackage messages.
MaxPackage == 2
\* SpecHook: up to MaxRuns batches are started.
MaxRuns == 2
\* SpecSession: up to MaxSessions sessions are created.
MaxSessions == 4

VARIABLES
    batchSize,       \* settings.batchSize
    queue,           \* taskQueue
    completedCount,  \* completedCount
    workers,         \* the worker closures: pc and the locals index, attempt, success
    aborted,         \* signal.aborted
    result,          \* the promise returned by generateImageBatchStream
    calls,           \* per slot: number of ai.models.generateContent calls started
    sleeps,          \* per slot: the waitTime of each delay(), in order
    images,          \* per slot: the images passed to callbacks.onImage, in order
    texts,           \* per slot: number of callbacks.onText calls
    progress,        \* the calls of callbacks.onProgress, in order
    counted,         \* per slot: its onProgress call has been made
    dequeued,        \* the indices returned by taskQueue.shift(), in order
    safetyAt,        \* per slot: ordinal of the call answered with finishReason SAFETY, 0 if none
    onlyText,        \* per slot: every answer so far was a candidate with text parts and no image
    atAbort,         \* what had been observed when controller.abort() ran
    apiKey,          \* argument apiKey
    prompt,          \* argument prompt
    history,         \* argument history
    uploadedImages,  \* argument uploadedImages
    msgParts,        \* buildHistory: the `parts` built for each message, by position
    formattedHistory,\* formattedHistory
    userParts,       \* userParts
    error,           \* the Error thrown before the pool starts, "none" if none
    sent,            \* the distinct `contents` passed to ai.models.generateContent
    late,            \* per slot: the provider answer that arrived after the abort
    textParts,       \* per slot: the text parts of the answers received so far
    messages,        \* useMessageState: messages
    receivedImages,  \* the images passed to addImageToMessage for the placeholder, in order
    receivedTexts,   \* the texts passed to addTextToMessage for the placeholder, in order
    isGenerating,    \* useImageGeneration: isGenerating
    shownProgress,   \* useImageGeneration: progress
    abortControllerRef, \* useImageGeneration: abortControllerRef.current, 0 for null
    runs,            \* the batches started by the hook: their controller and promise
    reported,        \* the runs for which onError was invoked, in order
    settings,        \* useSettings: settings
    sessionState,    \* useSessionState: state, the ids of sessions and currentSessionId
    rendered,        \* useSessionState: the state the current callbacks were created with
    createdSessions  \* the number of sessions created so far, which numbers the next id

vars == <<batchSize, queue, completedCount, workers, aborted, result, calls,
          sleeps, images, texts, progress, counted, dequeued, safetyAt, onlyText,
          atAbort, apiKey, prompt, history, uploadedImages, msgParts,
          formattedHistory, userParts, error, sent, late, textParts,
          messages,
          receivedImages, receivedTexts, isGenerating, shownProgress,
          abortControllerRef, runs, reported, settings, sessionState,
          rendered, createdSessions>>

\* The state of the hooks around the batch call.
storeVars == <<messages, receivedImages, receivedTexts>>

sessionVars == <<sessionState, rendered, createdSessions>>

appVars == <<isGenerating, shownProgress, abortControllerRef, runs, reported,
             settings, sessionVars>>

NoIndex == -1

Min(a, b) == IF a <= b THEN a ELSE b

RECURSIVE Pow2(_)
Pow2(n) == IF n = 0 THEN 1 ELSE 2 * Pow2(n - 1)

Slots == 0 .. (batchSize - 1)

\* ------------------------------------------------------ provider answers
\* What `await ai.models.generateContent(...)` can produce, by the branch of
\* the worker it takes.  A part is an inlineData part ("img"), a part with a
\* non-empty text ("txt") or a part with neither ("blank").
ImagePartLists == { <<>>, <<"img">>, <<"img", "img">> }

TextPartLists ==
    { <<"txt">>, <<"txt", "img">>, <<"img", "txt">>, <<"txt", "txt">>, <<"blank">> }

FailureResponses == [kind : {"throw", "nocand", "safety", "noparts"}, parts : {<<>>}]

\* Spec: answers whose parts, if any, are images.
Responses == FailureResponses \cup [kind : {"parts"}, parts : ImagePartLists]

\* SpecOne: answers with text parts as well.
TextResponses == Responses \cup [kind : {"parts"}, parts : TextPartLists]

\* SpecPool: the provider answers every call with one image.
PoolResponses == [kind : {"parts"}, parts : {<<"img">>}]

HasImage(parts) == \E i \in 1 .. Len(parts) : parts[i] = "img"

RECURSIVE CountOf(_, _)
CountOf(parts, what) ==
    IF parts = <<>> THEN 0
    ELSE (IF Head(parts) = what THEN 1 ELSE 0) + CountOf(Tail(parts), what)

\* ----------------------------------------------------------------- images
\* `call` is not a field of GeneratedImage: it records which provider call of
\* the slot carried the image (0 for the placeholder).
SuccessImage(callNo) ==
    [status |-> "success", data |-> "data:image/png;base64,AAAA",
     mimeType |-> "image/png", call |-> callNo]

ErrorImage == [status |-> "error", data |-> "", mimeType |-> "", call |-> 0]

RECURSIVE ImagesOf(_, _)
ImagesOf(parts, callNo) ==
    IF parts = <<>> THEN <<>>
    ELSE (IF Head(parts) = "img" THEN <<SuccessImage(callNo)>> ELSE <<>>)
           \o ImagesOf(Tail(parts), callNo)

\* -------------------------------------------------------- request content
\* A string is the sequence of its tokens.  The tokens of the CJK text are
\* written in ASCII: "TU" is the character for picture, "DI" the ordinal
\* prefix, "ZHANG" the counter for sheets, "YI" .. "SHI" the numerals one to
\* ten, "LEGEND:" the heading of the legend, "UPLOADED" the words "uploaded
\* picture", "(" ")" "," "." the full-width punctuation, "NL" a line feed.
CJKNumerals == <<"YI", "ER", "SAN", "SI", "WU", "LIU", "QI", "BA", "JIU", "SHI">>

DigitTokens == <<"0", "1", "2", "3", "4", "5", "6", "7", "8", "9">>

Range(seq) == {seq[i] : i \in 1 .. Len(seq)}

\* num.toString()
RECURSIVE ToDecimal(_)
ToDecimal(n) ==
    IF n < 10 THEN <<DigitTokens[n + 1]>>
    ELSE ToDecimal(n \div 10) \o <<DigitTokens[(n % 10) + 1]>>

\* [...numerals][num - 1] || num.toString()
ChineseNum(num) ==
    IF num <= Len(CJKNumerals) THEN <<CJKNumerals[num]>> ELSE ToDecimal(num)

\* The label of the num-th image in the legend.
ImageLabel(num) ==
    <<"TU">> \o ChineseNum(num) \o <<"(", "DI">> \o ToDecimal(num)
        \o <<"ZHANG", "UPLOADED", ")">>

\* Array.from({length: imageCount}, ...).join(","), labels from..imageCount.
RECURSIVE ImageLabels(_, _)
ImageLabels(from, imageCount) ==
    IF from > imageCount THEN <<>>
    ELSE IF from = imageCount THEN ImageLabel(from)
    ELSE ImageLabel(from) \o <<",">> \o ImageLabels(from + 1, imageCount)

\* The regular expression tested on the prompt, case-insensitively: the
\* picture character and a numeral or digit; "image", white space, a digit;
\* the ordinal prefix, a numeral or digit, the counter.
HasImageReference(p) ==
    LET numeral == Range(CJKNumerals) \cup Range(DigitTokens)
    IN \E i \in 1 .. Len(p) :
          \/ /\ p[i] = "TU"
             /\ i + 1 <= Len(p)
             /\ p[i + 1] \in numeral
          \/ /\ p[i] \in {"image", "Image", "IMAGE"}
             /\ \E j \in (i + 1) .. Len(p) :
                   /\ p[j] \in Range(DigitTokens)
                   /\ \A k \in (i + 1) .. (j - 1) : p[k] = " "
          \/ /\ p[i] = "DI"
             /\ i + 2 <= Len(p)
             /\ p[i + 1] \in numeral
             /\ p[i + 2] = "ZHANG"

\* Variant: a single image gets a legend as well.
EnhancedPromptSingleImage(p, imageCount) ==
    IF imageCount >= 1 /\ HasImageReference(p)
    THEN <<"LEGEND:">> \o ImageLabels(1, imageCount) \o <<".", "NL", "NL">> \o p
    ELSE p

\* Variant: the legend replaces the prompt instead of preceding it.
EnhancedPromptLegendOnly(p, imageCount) ==
    IF imageCount > 1 /\ HasImageReference(p)
    THEN <<"LEGEND:">> \o ImageLabels(1, imageCount) \o <<".", "NL", "NL">>
    ELSE p

\* enhancedPrompt, for a non-empty prompt and validImages.length = imageCount.
EnhancedPrompt(p, imageCount) ==
    IF imageCount > 1 /\ HasImageReference(p)
    THEN <<"LEGEND:">> \o ImageLabels(1, imageCount) \o <<".", "NL", "NL">> \o p
    ELSE p

\* A base64 payload: what it encodes and its length in characters.
Payload(tag, length) == [tag |-> tag, length |-> length]

NoData == Payload("", 0)

\* `data:${mime};base64,${payload}`
DataUri(mime, payload) == <<"data:", mime, ";base64,", payload>>

\* img.data.match(/^data:([^;]+);base64,(.+)$/): both groups are non-empty.
Base64Match(d) ==
    /\ Len(d) = 4
    /\ d[1] = "data:"
    /\ d[2] # ""
    /\ d[3] = ";base64,"
    /\ d[4].length > 0

\* data.split(',')[1]
AfterComma(d) == IF Len(d) >= 4 THEN d[4] ELSE NoData

\* a || b || 'image/png'
FinalMimeType(fromData, stored) ==
    IF fromData # "" THEN fromData
    ELSE IF stored # "" THEN stored
    ELSE "image/png"

MiB == 1024 * 1024

\* Variant: no image is ever too large.
OversizedNever(length) == FALSE

\* estimatedSizeMB > 20 with estimatedSizeMB = (length * 3 / 4) / (1024 * 1024);
\* the quotients are exact in floating point, so this is the same comparison.
Oversized(length) == length * 3 > MaxImageMB * MiB * 4

\* The parts of a Content.
ImagePart(mime, payload) ==
    [kind |-> "inlineData", mimeType |-> mime, data |-> payload, text |-> <<>>]

TextPart(t) == [kind |-> "text", mimeType |-> "", data |-> NoData, text |-> t]

\* The validation loop over uploadedImages.
RECURSIVE ValidImages(_)
ValidImages(imgs) ==
    IF imgs = <<>> THEN <<>>
    ELSE LET img == Head(imgs)
         IN (IF ~Base64Match(img.data) THEN <<>>
             ELSE IF img.data[4].length = 0 THEN <<>>
             ELSE IF Oversized(img.data[4].length) THEN <<>>
             ELSE <<ImagePart(FinalMimeType(img.data[2], img.mimeType),
                              img.data[4])>>)
            \o ValidImages(Tail(imgs))

\* buildHistory, user message: the loop over msg.uploadedImages.
RECURSIVE HistoryUploads(_)
HistoryUploads(imgs) ==
    IF imgs = <<>> THEN <<>>
    ELSE LET img == Head(imgs)
         IN (IF ~Base64Match(img.data) THEN <<>>
             ELSE IF img.data[4].length = 0 THEN <<>>
             ELSE <<ImagePart(FinalMimeType(img.data[2], img.mimeType),
                              img.data[4])>>)
            \o HistoryUploads(Tail(imgs))

\* selectedImageId is undefined.
NoSelection == "undefined"

\* msg.images.find(img => img.id === msg.selectedImageId): its position, 0
\* when there is none.
FindImage(imgs, id) ==
    LET hits == {k \in 1 .. Len(imgs) : imgs[k].id = id}
    IN IF hits = {} THEN 0
       ELSE CHOOSE k \in hits : \A j \in hits : k <= j

\* Variant: the selected image is included whatever its status.
SelectedImagePartsAnyStatus(msg) ==
    LET k == FindImage(msg.images, msg.selectedImageId)
    IN IF k # 0
       THEN <<ImagePart(msg.images[k].mimeType, AfterComma(msg.images[k].data))>>
       ELSE <<>>

\* buildHistory, model message: the selected image, if it is a success.
SelectedImageParts(msg) ==
    LET k == FindImage(msg.images, msg.selectedImageId)
    IN IF k # 0 /\ msg.images[k].status = "success"
       THEN <<ImagePart(msg.images[k].mimeType, AfterComma(msg.images[k].data))>>
       ELSE <<>>

\* buildHistory: the `parts` of one message.
MessageParts(msg) ==
    (IF msg.role = "user" THEN HistoryUploads(msg.uploadedImages)
     ELSE SelectedImageParts(msg))
    \o (IF msg.text # <<>> THEN <<TextPart(msg.text)>> ELSE <<>>)

\* buildHistory: the messages with at least one part, under their role.
RECURSIVE BuildHistory(_)
BuildHistory(msgs) ==
    IF msgs = <<>> THEN <<>>
    ELSE LET parts == MessageParts(Head(msgs))
         IN (IF parts # <<>>
             THEN <<[role |-> Head(msgs).role, parts |-> parts]>>
             ELSE <<>>)
            \o BuildHistory(Tail(msgs))

\* Variant: an empty API key is let through.
ApiKeyNeverMissing(key) == FALSE

\* !apiKey
ApiKeyMissing(key) == key = ""

\* Variant: a turn whose images were all dropped goes on without them.
NoValidImagesIgnored(valid, supplied) == FALSE

\* validImages.length === 0 && uploadedImages.length > 0
NoValidImages(valid, supplied) == Len(valid) = 0 /\ Len(supplied) > 0

\* Variant: a turn without parts is sent.
NoPartsIgnored(parts) == FALSE

\* userParts.length === 0
NoParts(parts) == Len(parts) = 0

\* Variant: the images are pushed before the text.
TurnPartsImagesFirst(p, valid) ==
    valid \o (IF p # <<>>
              THEN <<TextPart(EnhancedPrompt(p, Len(valid)))>>
              ELSE <<>>)

\* userParts: the text part of a non-empty prompt, then the valid images.
TurnParts(p, valid) ==
    (IF p # <<>>
     THEN <<TextPart(EnhancedPrompt(p, Len(valid)))>>
     ELSE <<>>) \o valid

Rejected(message) ==
    [error |-> message, msgParts |-> <<>>, formattedHistory |-> <<>>,
     userParts |-> <<>>]

\* generateImageBatchStream up to the creation of the task queue: the error
\* it throws, or the history and the current turn it has built.
Prepare(key, p, msgs, supplied) ==
    IF ApiKeyMissing(key) THEN Rejected("API Key is missing")
    ELSE LET valid == ValidImages(supplied)
             parts == TurnParts(p, valid)
         IN IF NoValidImages(valid, supplied)
            THEN Rejected("No valid images could be processed")
            ELSE IF NoParts(parts)
            THEN Rejected("At least one image or text prompt is required")
            ELSE [error |-> "none",
                  msgParts |-> [i \in 1 .. Len(msgs) |->
                                   MessageParts(msgs[i])],
                  formattedHistory |-> BuildHistory(msgs),
                  userParts |-> parts]

\* [...formattedHistory, {role: 'user', parts: userParts}]
Contents(formatted, parts) ==
    formatted \o <<[role |-> "user", parts |-> parts]>>

\* ------------------------------------------------------------ the pool
\* The part of the state a worker segment reads and writes, as one record.
Pool ==
    [queue |-> queue, completedCount |-> completedCount, workers |-> workers,
     calls |-> calls, sleeps |-> sleeps, images |-> images, texts |-> texts,
     progress |-> progress, counted |-> counted, dequeued |-> dequeued]

\* Variant: the promise of an aborted run is never resolved.
CommitLeavesAbortedPending(p) ==
    /\ queue' = p.queue
    /\ completedCount' = p.completedCount
    /\ workers' = p.workers
    /\ calls' = p.calls
    /\ sleeps' = p.sleeps
    /\ images' = p.images
    /\ texts' = p.texts
    /\ progress' = p.progress
    /\ counted' = p.counted
    /\ dequeued' = p.dequeued
    /\ result' = IF \E w \in DOMAIN p.workers : p.workers[w].pc = "threw"
                 THEN "rejected"
                 ELSE IF (\A w \in DOMAIN p.workers : p.workers[w].pc = "done")
                         /\ ~aborted
                 THEN "resolved" ELSE "pending"

Commit(p) ==
    /\ queue' = p.queue
    /\ completedCount' = p.completedCount
    /\ workers' = p.workers
    /\ calls' = p.calls
    /\ sleeps' = p.sleeps
    /\ images' = p.images
    /\ texts' = p.texts
    /\ progress' = p.progress
    /\ counted' = p.counted
    /\ dequeued' = p.dequeued
    /\ result' = IF \E w \in DOMAIN p.workers : p.workers[w].pc = "threw"
                 THEN "rejected"
                 ELSE IF \A w \in DOMAIN p.workers : p.workers[w].pc = "done"
                 THEN "resolved" ELSE "pending"

\* `return` / falling out of the outer while: the closure is gone.
Return(p, w) ==
    [p EXCEPT !.workers[w] =
        [pc |-> "done", index |-> NoIndex, attempt |-> 0, success |-> FALSE]]

\* Variant: the queue is consumed from its end (taskQueue.pop()).
QueuePop(q) == [index |-> q[Len(q)], rest |-> SubSeq(q, 1, Len(q) - 1)]

\* taskQueue.shift()
QueueShift(q) == [index |-> Head(q), rest |-> Tail(q)]

\* Variant: no abort check inside the retry loop.
StartAttemptUnchecked(p, w) ==
    [p EXCEPT !.workers[w].pc = "calling",
              !.calls[p.workers[w].index] = @ + 1]

\* Body of the retry loop up to the await: the abort check, then the call.
StartAttempt(p, w) ==
    IF aborted THEN Return(p, w)
    ELSE [p EXCEPT !.workers[w].pc = "calling",
                   !.calls[p.workers[w].index] = @ + 1]

\* Variant: no abort check before the dequeue.
LoopHeadUnchecked(p, w) ==
    IF p.queue = <<>> THEN Return(p, w)
    ELSE LET sh == QueueShift(p.queue)
             p1 == [p EXCEPT !.queue = sh.rest,
                             !.dequeued = Append(@, sh.index),
                             !.workers[w] = [pc |-> "run", index |-> sh.index,
                                             attempt |-> 0, success |-> FALSE]]
         IN StartAttempt(p1, w)

\* Head of the outer loop: queue test, abort check, dequeue, first attempt.
LoopHead(p, w) ==
    IF p.queue = <<>> THEN Return(p, w)
    ELSE IF aborted THEN Return(p, w)
    ELSE LET sh == QueueShift(p.queue)
             p1 == [p EXCEPT !.queue = sh.rest,
                             !.dequeued = Append(@, sh.index),
                             !.workers[w] = [pc |-> "run", index |-> sh.index,
                                             attempt |-> 0, success |-> FALSE]]
         IN StartAttempt(p1, w)

\* Variant: the placeholder is delivered whether or not the slot succeeded.
AfterRetryAlwaysPlaceholder(p, w) ==
    LET s  == p.workers[w].index
        p1 == IF ~aborted
              THEN [p EXCEPT !.images[s] = Append(@, ErrorImage)]
              ELSE p
        p2 == IF ~aborted
              THEN [p1 EXCEPT !.completedCount = @ + 1,
                              !.progress = Append(@,
                                  [completed |-> p1.completedCount + 1,
                                   total |-> batchSize]),
                              !.counted[s] = TRUE]
              ELSE p1
    IN LoopHead(p2, w)

\* Variant: onProgress reports the slot number instead of the shared counter.
AfterRetryReportsSlot(p, w) ==
    LET s  == p.workers[w].index
        p1 == IF ~p.workers[w].success /\ ~aborted
              THEN [p EXCEPT !.images[s] = Append(@, ErrorImage)]
              ELSE p
        p2 == IF ~aborted
              THEN [p1 EXCEPT !.completedCount = @ + 1,
                              !.progress = Append(@,
                                  [completed |-> s + 1, total |-> batchSize]),
                              !.counted[s] = TRUE]
              ELSE p1
    IN LoopHead(p2, w)

\* Variant: a failed slot is counted without its placeholder.
AfterRetryCountsOnly(p, w) ==
    LET s  == p.workers[w].index
        p2 == IF ~aborted
              THEN [p EXCEPT !.completedCount = @ + 1,
                             !.progress = Append(@,
                                 [completed |-> p.completedCount + 1,
                                  total |-> batchSize]),
                             !.counted[s] = TRUE]
              ELSE p
    IN LoopHead(p2, w)

\* Variant: the placeholder is delivered to an aborted run as well.
AfterRetryPlaceholderUngated(p, w) ==
    LET s  == p.workers[w].index
        p1 == IF ~p.workers[w].success
              THEN [p EXCEPT !.images[s] = Append(@, ErrorImage)]
              ELSE p
        p2 == IF ~aborted
              THEN [p1 EXCEPT !.completedCount = @ + 1,
                              !.progress = Append(@,
                                  [completed |-> p1.completedCount + 1,
                                   total |-> batchSize]),
                              !.counted[s] = TRUE]
              ELSE p1
    IN LoopHead(p2, w)

\* After the retry loop: the placeholder, the progress report, next slot.
AfterRetry(p, w) ==
    LET s  == p.workers[w].index
        p1 == IF ~p.workers[w].success /\ ~aborted
              THEN [p EXCEPT !.images[s] = Append(@, ErrorImage)]
              ELSE p
        p2 == IF ~aborted
              THEN [p1 EXCEPT !.completedCount = @ + 1,
                              !.progress = Append(@,
                                  [completed |-> p1.completedCount + 1,
                                   total |-> batchSize]),
                              !.counted[s] = TRUE]
              ELSE p1
    IN LoopHead(p2, w)

\* Condition of the retry loop.
RetryHead(p, w) ==
    IF p.workers[w].attempt <= MAX_RETRIES /\ ~p.workers[w].success
    THEN StartAttempt(p, w)
    ELSE AfterRetry(p, w)

\* Variant: the error of the last attempt is thrown out of the worker.
CatchRethrows(p, w) ==
    LET s  == p.workers[w].index
        a  == p.workers[w].attempt + 1
        p1 == [p EXCEPT !.workers[w].attempt = a]
    IN IF a <= MAX_RETRIES /\ ~aborted
       THEN [p1 EXCEPT !.workers[w].pc = "sleeping",
                       !.sleeps[s] = Append(@, BackoffBaseMs * Pow2(a - 1))]
       ELSE IF a > MAX_RETRIES /\ ~aborted
       THEN [p1 EXCEPT !.workers[w].pc = "threw"]
       ELSE RetryHead(p1, w)

\* Variant: the backoff grows linearly (1000 * attempt).
CatchLinearBackoff(p, w) ==
    LET s  == p.workers[w].index
        a  == p.workers[w].attempt + 1
        p1 == [p EXCEPT !.workers[w].attempt = a]
    IN IF a <= MAX_RETRIES /\ ~aborted
       THEN [p1 EXCEPT !.workers[w].pc = "sleeping",
                       !.sleeps[s] = Append(@, BackoffBaseMs * a)]
       ELSE RetryHead(p1, w)

\* The catch block: count the attempt, back off unless it was the last one
\* or the run is aborted.
Catch(p, w) ==
    LET s  == p.workers[w].index
        a  == p.workers[w].attempt + 1
        p1 == [p EXCEPT !.workers[w].attempt = a]
    IN IF a <= MAX_RETRIES /\ ~aborted
       THEN [p1 EXCEPT !.workers[w].pc = "sleeping",
                       !.sleeps[s] = Append(@, BackoffBaseMs * Pow2(a - 1))]
       ELSE RetryHead(p1, w)

\* Variant: one worker per slot, without the cap.
NumWorkersUncapped(n) == n

\* Math.min(MAX_CONCURRENT_REQUESTS, settings.batchSize)
NumWorkers(n) == Min(MAX_CONCURRENT_REQUESTS, n)

\* Array.from({length: numWorkers}, (_, i) => worker(i + 1)): each worker runs
\* to its first await before the next one is created.
RECURSIVE Spawn(_, _, _)
Spawn(p, w, n) ==
    IF w > n THEN p
    ELSE Spawn(LoopHead([p EXCEPT !.workers =
                            Append(@, [pc |-> "run", index |-> NoIndex,
                                       attempt |-> 0, success |-> FALSE])], w),
               w + 1, n)

\* Variant: the answer of a call is dropped when the run has been aborted.
HandleResponseDropsLate(p, w, r) ==
    LET s     == p.workers[w].index
        found == r.kind = "parts" /\ HasImage(r.parts)
        p1    == IF r.kind = "parts" /\ ~aborted
                 THEN [p EXCEPT !.images[s] = @ \o ImagesOf(r.parts, p.calls[s]),
                                !.texts[s] = @ + CountOf(r.parts, "txt"),
                                !.workers[w].success = found]
                 ELSE p
    IN CASE aborted -> Return(p1, w)
         [] r.kind = "safety" -> AfterRetry(p1, w)
         [] found -> RetryHead(p1, w)
         [] OTHER -> Catch(p1, w)

\* Variant: the text parts are delivered only with an answer that has an image.
HandleResponseTextWithImage(p, w, r) ==
    LET s     == p.workers[w].index
        found == r.kind = "parts" /\ HasImage(r.parts)
        p1    == IF found
                 THEN [p EXCEPT !.images[s] = @ \o ImagesOf(r.parts, p.calls[s]),
                                !.texts[s] = @ + CountOf(r.parts, "txt"),
                                !.workers[w].success = found]
                 ELSE p
    IN CASE r.kind = "safety" -> AfterRetry(p1, w)
         [] found -> RetryHead(p1, w)
         [] OTHER -> Catch(p1, w)

\* Variant: a SAFETY answer is thrown into the catch block like other failures.
HandleResponseRetriesSafety(p, w, r) ==
    LET s     == p.workers[w].index
        found == r.kind = "parts" /\ HasImage(r.parts)
        p1    == IF r.kind = "parts"
                 THEN [p EXCEPT !.images[s] = @ \o ImagesOf(r.parts, p.calls[s]),
                                !.texts[s] = @ + CountOf(r.parts, "txt"),
                                !.workers[w].success = found]
                 ELSE p
    IN CASE found -> RetryHead(p1, w)
         [] OTHER -> Catch(p1, w)

\* Variant: an answer with any part, image or not, ends the retry loop.
HandleResponseAnyPartSucceeds(p, w, r) ==
    LET s     == p.workers[w].index
        found == r.kind = "parts" /\ r.parts # <<>>
        p1    == IF r.kind = "parts"
                 THEN [p EXCEPT !.images[s] = @ \o ImagesOf(r.parts, p.calls[s]),
                                !.texts[s] = @ + CountOf(r.parts, "txt"),
                                !.workers[w].success = found]
                 ELSE p
    IN CASE r.kind = "safety" -> AfterRetry(p1, w)
         [] found -> RetryHead(p1, w)
         [] OTHER -> Catch(p1, w)

\* The await of ai.models.generateContent has settled with answer r: the rest
\* of the try block, or the catch block, up to the worker's next await.
HandleResponse(p, w, r) ==
    LET s     == p.workers[w].index
        found == r.kind = "parts" /\ HasImage(r.parts)
        p1    == IF r.kind = "parts"
                 THEN [p EXCEPT !.images[s] = @ \o ImagesOf(r.parts, p.calls[s]),
                                !.texts[s] = @ + CountOf(r.parts, "txt"),
                                !.workers[w].success = found]
                 ELSE p
    IN CASE r.kind = "safety" -> AfterRetry(p1, w)
         [] found -> RetryHead(p1, w)
         [] OTHER -> Catch(p1, w)

ErrorCount(imgs) == Cardinality({i \in 1 .. Len(imgs) : imgs[i].status = "error"})

\* The callbacks and calls made so far, as counted when the run is aborted.
Observed ==
    [dequeued |-> Len(dequeued), progress |-> Len(progress), calls |-> calls,
     sleeps |-> sleeps, errors |-> [s \in Slots |-> ErrorCount(images[s])],
     texts |-> texts]

\* No answer has arrived after the abort.
NoAnswer == [kind |-> "none", parts |-> <<>>]

\* ----------------------------------------------------- the message store
\* The messages state of useMessageState and the sink that the batch is
\* given: onImage is addImageToMessage and onText is addTextToMessage, both
\* for the placeholder model message of the turn.
ModelMessageId == "m"

StoreMessage(id, msg) ==
    [id |-> id, role |-> msg.role, text |-> msg.text,
     textVariations |-> msg.textVariations, uploadedImages |-> msg.uploadedImages,
     images |-> msg.images, selectedImageId |-> msg.selectedImageId,
     isError |-> FALSE]

\* prev.map(msg => msg.id === messageId ? f(msg) : msg)
MapMessage(msgs, messageId, f(_)) ==
    [i \in 1 .. Len(msgs) |->
        IF msgs[i].id = messageId THEN f(msgs[i]) ELSE msgs[i]]

AddImageToMessage(msgs, messageId, image) ==
    LET add(msg) == [msg EXCEPT !.images = Append(@, image)]
    IN MapMessage(msgs, messageId, add)

\* Variant: the displayed text follows the latest variation.
AddTextToMessageShowsLast(msgs, messageId, text) ==
    LET add(msg) ==
            IF text \in Range(msg.textVariations) THEN msg
            ELSE [msg EXCEPT !.text = text,
                             !.textVariations = Append(@, text)]
    IN MapMessage(msgs, messageId, add)

AddTextToMessage(msgs, messageId, text) ==
    LET add(msg) ==
            IF text \in Range(msg.textVariations) THEN msg
            ELSE LET nextVariations == Append(msg.textVariations, text)
                 IN [msg EXCEPT !.text = nextVariations[1],
                                !.textVariations = nextVariations]
    IN MapMessage(msgs, messageId, add)

\* selectImage: selecting the selected image again clears the selection.
SelectImage(msgs, messageId, imageId) ==
    LET toggle(msg) ==
            [msg EXCEPT !.selectedImageId =
                IF @ = imageId THEN NoSelection ELSE imageId]
    IN MapMessage(msgs, messageId, toggle)

\* The catch block of the caller: the message is marked, and shows the error
\* text unless it already shows a text.
MarkError(msgs, messageId) ==
    LET mark(msg) ==
            [msg EXCEPT !.isError = TRUE,
                        !.text = IF @ # <<>> THEN @ ELSE <<"Generation failed.">>]
    IN MapMessage(msgs, messageId, mark)

\* The GeneratedImage behind an image of the delivery log: the n-th image
\* delivered for slot s.  The id stands for generateUUID().
GeneratedImageOf(img, s, n) ==
    [id |-> ToString(<<s, n>>), status |-> img.status, mimeType |-> img.mimeType,
     data |-> IF img.status = "success"
              THEN DataUri(img.mimeType, Payload("AAAA", 4)) ELSE <<>>]

\* The text of a provider text part.
ReplyText == <<"reply">>

RECURSIVE OnImages(_, _, _, _)
OnImages(msgs, s, imgs, from) ==
    IF from > Len(imgs) THEN msgs
    ELSE OnImages(AddImageToMessage(msgs, ModelMessageId,
                                    GeneratedImageOf(imgs[from], s, from)),
                  s, imgs, from + 1)

RECURSIVE OnTexts(_, _)
OnTexts(msgs, n) ==
    IF n = 0 THEN msgs
    ELSE OnTexts(AddTextToMessage(msgs, ModelMessageId, ReplyText), n - 1)

\* The callbacks made for slot s in this step, applied to the store.
Sink(s) ==
    messages' = OnTexts(OnImages(messages, s, images'[s], Len(images[s]) + 1),
                        texts'[s] - texts[s])

\* No message is stored, nothing has been delivered.
NoStore ==
    /\ messages = <<>>
    /\ receivedImages = <<>>
    /\ receivedTexts = <<>>

NoProgress == [current |-> -1, total |-> -1]

\* JavaScript values a caller can hand over as a batch size: a number is
\* an integer n, a number with a fractional part (n its integer part), NaN or
\* Infinity; the other values are not numbers.
JsInteger(n) == [kind |-> "integer", n |-> n]
JsFraction(n) == [kind |-> "fraction", n |-> n]
NaN == [kind |-> "NaN", n |-> 0]
Infinity == [kind |-> "Infinity", n |-> 0]
JsString == [kind |-> "string", n |-> 0]
Null == [kind |-> "null", n |-> 0]
Undefined == [kind |-> "undefined", n |-> 0]

MIN_BATCH_SIZE == 1
MAX_BATCH_SIZE == 20

\* batchSizeSchema.parse(value) succeeds: z.number() takes numbers other than
\* NaN, int() whole finite ones, min() and max() those within the limits.
BatchSizeSchema(value) ==
    /\ value.kind \in {"integer", "fraction", "Infinity"}
    /\ value.kind = "integer"
    /\ value.n >= MIN_BATCH_SIZE
    /\ value.n <= MAX_BATCH_SIZE

\* validateBatchSize(batchSize) throws.
ValidateBatchSizeThrows(value) == ~BatchSizeSchema(value)

\* updateSettings that drops only the rejected batch size and applies the
\* other keys of the update.
UpdateSettingsKeepsOtherKeys(prev, updates) ==
    LET newSettings == updates @@ prev
    IN IF "batchSize" \in DOMAIN updates /\ updates.batchSize # Undefined
       THEN IF ValidateBatchSizeThrows(updates.batchSize)
            THEN [newSettings EXCEPT !.batchSize = prev.batchSize]
            ELSE newSettings
       ELSE newSettings

\* updateSettings(updates) of useSettings, as a function of the previous
\* settings. updates is a record over the keys the caller wrote; the spread
\* {...prev, ...updates} takes every key of updates, prev elsewhere.
UpdateSettings(prev, updates) ==
    LET newSettings == updates @@ prev
    IN IF "batchSize" \in DOMAIN updates /\ updates.batchSize # Undefined
       THEN IF ValidateBatchSizeThrows(updates.batchSize) THEN prev
            ELSE newSettings
       ELSE newSettings

DefaultSettings ==
    [batchSize |-> JsInteger(2), aspectRatio |-> "Auto", resolution |-> "1K"]

\* The generation hook as it is before any call.
HookIdle ==
    /\ isGenerating = FALSE
    /\ shownProgress = NoProgress
    /\ abortControllerRef = 0
    /\ runs = <<>>
    /\ reported = <<>>

\* createNewSession(): ids are fresh; the n-th session created has id n.
CreateNewSession(created) == created + 1

\* The initial state of useSessionState, from the stored session ids and the
\* stored current id (0 for none): the stored sessions with the stored id if
\* it is among them, else with the first of them; one new session when
\* nothing is stored.
InitialSessionState(stored, storedId) ==
    IF Len(stored) > 0
    THEN IF storedId # 0 /\ \E i \in 1 .. Len(stored) : stored[i] = storedId
         THEN [sessions |-> stored, currentSessionId |-> storedId]
         ELSE [sessions |-> stored, currentSessionId |-> stored[1]]
    ELSE [sessions |-> <<CreateNewSession(0)>>,
          currentSessionId |-> CreateNewSession(0)]

\* useSessionState on its first render, with nothing stored.
SessionsIdle ==
    /\ sessionState = InitialSessionState(<<>>, 0)
    /\ rendered = sessionState
    /\ createdSessions = 1

\* The hooks as they are before any call.
AppIdle ==
    /\ HookIdle
    /\ settings = DefaultSettings
    /\ SessionsIdle

\* ---------------------------------------------------------------- actions
InitWith(sizes) ==
    /\ batchSize \in sizes
    /\ queue = <<>>
    /\ completedCount = 0
    /\ workers = <<>>
    /\ aborted = FALSE
    /\ result = "none"
    /\ calls = [s \in Slots |-> 0]
    /\ sleeps = [s \in Slots |-> <<>>]
    /\ images = [s \in Slots |-> <<>>]
    /\ texts = [s \in Slots |-> 0]
    /\ progress = <<>>
    /\ counted = [s \in Slots |-> FALSE]
    /\ dequeued = <<>>
    /\ safetyAt = [s \in Slots |-> 0]
    /\ onlyText = [s \in Slots |-> TRUE]
    /\ atAbort = Observed
    /\ msgParts = <<>>
    /\ formattedHistory = <<>>
    /\ userParts = <<>>
    /\ error = "none"
    /\ sent = {}
    /\ late = [s \in Slots |-> NoAnswer]
    /\ textParts = [s \in Slots |-> 0]

\* The arguments of the call.
Arguments(keys, prompts, histories, uploads) ==
    /\ apiKey \in keys
    /\ prompt \in prompts
    /\ history \in histories
    /\ uploadedImages \in uploads

\* A first turn: a key, a plain prompt, no history, no reference image.
FirstTurn == Arguments({"key"}, {<<"draw">>}, {<<>>}, {<<>>})

Init == InitWith(1 .. MaxBatch) /\ FirstTurn /\ NoStore /\ AppIdle

\* One slot, the scenario of a single-image request.
InitOne == InitWith({1}) /\ FirstTurn /\ NoStore /\ AppIdle

InitPool ==
    InitWith({MAX_CONCURRENT_REQUESTS + PoolExtra}) /\ FirstTurn /\ NoStore /\ AppIdle

\* Variant: the history is rebuilt from the message store at every call.
SendingLiveStore(formatted, parts) ==
    sent' = IF calls' # calls THEN sent \cup {Contents(BuildHistory(messages), parts)}
            ELSE sent

\* The `contents` of the calls started in this step, added to those sent.
Sending(formatted, parts) ==
    sent' = IF calls' # calls THEN sent \cup {Contents(formatted, parts)}
            ELSE sent

\* The call of generateImageBatchStream up to `await Promise.all(workers)`,
\* or up to the error it throws before the pool exists.
Start ==
    /\ result = "none"
    /\ LET prep == Prepare(apiKey, prompt, history, uploadedImages)
           p0   == [Pool EXCEPT !.queue = [i \in 1 .. batchSize |-> i - 1],
                                !.completedCount = 0]
       IN /\ error' = prep.error
          /\ msgParts' = prep.msgParts
          /\ formattedHistory' = prep.formattedHistory
          /\ userParts' = prep.userParts
          /\ IF prep.error # "none"
             THEN /\ result' = "rejected"
                  /\ UNCHANGED <<queue, completedCount, workers, calls, sleeps,
                                 images, texts, progress, counted, dequeued>>
             ELSE Commit(Spawn(p0, 1, NumWorkers(batchSize)))
          /\ Sending(prep.formattedHistory, prep.userParts)
    /\ UNCHANGED <<batchSize, aborted, safetyAt, onlyText, atAbort, apiKey,
                   prompt, history, uploadedImages, late,
                   textParts>>
    /\ UNCHANGED <<storeVars, appVars>>

\* The continuation of a worker after `await ai.models.generateContent`.
ProviderReturn(w, r) ==
    /\ w \in DOMAIN workers
    /\ workers[w].pc = "calling"
    /\ LET s == workers[w].index
           found == r.kind = "parts" /\ HasImage(r.parts)
       IN /\ Commit(HandleResponse(Pool, w, r))
          /\ safetyAt' = IF r.kind = "safety"
                         THEN [safetyAt EXCEPT ![s] = calls[s]]
                         ELSE safetyAt
          /\ onlyText' = [onlyText EXCEPT ![s] =
                             @ /\ r.kind = "parts" /\ ~found
                               /\ CountOf(r.parts, "txt") > 0]
          /\ late' = IF aborted THEN [late EXCEPT ![s] = r] ELSE late
          /\ textParts' = [textParts EXCEPT ![s] =
                              @ + (IF r.kind = "parts"
                                   THEN CountOf(r.parts, "txt") ELSE 0)]
    /\ Sending(formattedHistory, userParts)
    /\ Sink(workers[w].index)
    /\ UNCHANGED <<batchSize, aborted, atAbort, apiKey, prompt, history,
                   uploadedImages, msgParts, formattedHistory, userParts, error>>
    /\ UNCHANGED <<receivedImages, receivedTexts, appVars>>

\* The continuation of a worker after `await delay(waitTime)`.
SleepDone(w) ==
    /\ w \in DOMAIN workers
    /\ workers[w].pc = "sleeping"
    /\ Commit(RetryHead(Pool, w))
    /\ Sending(formattedHistory, userParts)
    /\ UNCHANGED <<batchSize, aborted, safetyAt, onlyText, atAbort, apiKey,
                   prompt, history, uploadedImages, msgParts, formattedHistory,
                   userParts, error, late, textParts>>
    /\ Sink(workers[w].index)
    /\ UNCHANGED <<receivedImages, receivedTexts, appVars>>

\* The caller aborts the controller while the run is pending.
Abort ==
    /\ result = "pending"
    /\ ~aborted
    /\ aborted' = TRUE
    /\ atAbort' = Observed
    /\ UNCHANGED <<batchSize, queue, completedCount, workers, result, calls,
                   sleeps, images, texts, progress, counted, dequeued, safetyAt,
                   onlyText, apiKey, prompt, history, uploadedImages, msgParts,
                   formattedHistory, userParts, error, sent, late,
                   textParts>>
    /\ UNCHANGED <<storeVars, appVars>>

\* The caller aborts while slot indices are still waiting in the queue.
AbortQueued ==
    /\ queue # <<>>
    /\ Abort

Next ==
    \/ Start
    \/ \E w \in 1 .. MAX_CONCURRENT_REQUESTS : \E r \in Responses : ProviderReturn(w, r)
    \/ \E w \in 1 .. MAX_CONCURRENT_REQUESTS : SleepDone(w)
    \/ Abort

Spec == Init /\ [][Next]_vars

\* SpecFair: one answer for each way a call can end: it throws, it is blocked
\* by the safety filter, it carries an image.
FairResponses ==
    [kind : {"throw", "safety"}, parts : {<<>>}]
        \cup [kind : {"parts"}, parts : {<<"img">>}]

CallReturns(w) == \E r \in FairResponses : ProviderReturn(w, r)

\* Every provider call returns or fails in the end, and every timer fires:
\* while some worker waits for an answer or for the end of its sleep, one of
\* these waits ends.
WaitEnds == \E w \in 1 .. MAX_CONCURRENT_REQUESTS : CallReturns(w) \/ SleepDone(w)

NextFair ==
    \/ Start
    \/ \E w \in 1 .. MAX_CONCURRENT_REQUESTS : CallReturns(w)
    \/ \E w \in 1 .. MAX_CONCURRENT_REQUESTS : SleepDone(w)
    \/ Abort

SpecFair == Init /\ [][NextFair]_vars /\ WF_vars(WaitEnds)

\* The pool over its cap: every answer carries one image, and the abort comes
\* while indices are queued (an abort with the queue empty is part of Spec).
NextPool ==
    \/ Start
    \/ \E w \in 1 .. MAX_CONCURRENT_REQUESTS : \E r \in PoolResponses : ProviderReturn(w, r)
    \/ AbortQueued

SpecPool == InitPool /\ [][NextPool]_vars

NextOne ==
    \/ Start
    \/ \E w \in 1 .. MAX_CONCURRENT_REQUESTS : \E r \in TextResponses : ProviderReturn(w, r)
    \/ \E w \in 1 .. MAX_CONCURRENT_REQUESTS : SleepDone(w)
    \/ Abort

SpecOne == InitOne /\ [][NextOne]_vars

\* ------------------------------------------------------ the current turn
\* The reference images a turn can carry, by how the validation treats them:
\* a small image, one whose estimate is exactly at the ceiling, one just over
\* it, a URL that is not a data URI, and a data URI without payload.  The
\* stored mimeType differs from the one in the data URI.
LimitLength == (MaxImageMB * MiB * 4) \div 3

UploadKinds ==
    { [id |-> "small", mimeType |-> "image/png",
       data |-> DataUri("image/jpeg", Payload("small", 4))],
      [id |-> "limit", mimeType |-> "image/png",
       data |-> DataUri("image/png", Payload("limit", LimitLength))],
      [id |-> "large", mimeType |-> "image/png",
       data |-> DataUri("image/png", Payload("large", LimitLength + 1))],
      [id |-> "blob", mimeType |-> "image/png",
       data |-> <<"blob:", "x">>],
      [id |-> "empty", mimeType |-> "image/png",
       data |-> DataUri("image/png", Payload("", 0))] }

RECURSIVE SeqsUpTo(_, _)
SeqsUpTo(S, n) ==
    IF n = 0 THEN {<<>>}
    ELSE LET shorter == SeqsUpTo(S, n - 1)
         IN shorter \cup {Append(q, x) : q \in shorter, x \in S}

Prompts ==
    { <<>>, <<"draw">>, <<"use", "image", " ", "2">>, <<"TU", "YI">>,
      <<"DI", "2", "ZHANG">>, <<"image", "two">> }

InitTurn ==
    /\ InitWith({1})
    /\ Arguments({"", "key"}, Prompts, {<<>>}, SeqsUpTo(UploadKinds, MaxUploads))
    /\ NoStore
    /\ AppIdle

\* The provider answers every call with one image.
NextRequest ==
    \/ Start
    \/ \E w \in 1 .. MAX_CONCURRENT_REQUESTS : \E r \in PoolResponses : ProviderReturn(w, r)

SpecTurn == InitTurn /\ [][NextRequest]_vars

\* ------------------------------------------------------ the conversation
\* The images of an earlier model message: a success and an error.
Generated ==
    << [id |-> "g1", status |-> "success", mimeType |-> "image/png",
        data |-> DataUri("image/png", Payload("generated", 4))],
       [id |-> "g2", status |-> "error", mimeType |-> "", data |-> <<>>] >>

UserMessage(text, uploads) ==
    [role |-> "user", text |-> text, textVariations |-> <<>>,
     uploadedImages |-> uploads, images |-> <<>>, selectedImageId |-> NoSelection]

ModelMessage(text, generated, selected) ==
    [role |-> "model", text |-> text,
     textVariations |-> IF text = <<>> THEN <<>> ELSE <<text, <<"variant">>>>,
     uploadedImages |-> <<>>, images |-> generated, selectedImageId |-> selected]

\* Earlier messages: a user turn with text and an upload, a user turn with
\* neither, and model answers with each kind of selection.
Messages ==
    { UserMessage(<<"earlier", "prompt">>,
                  <<[id |-> "u1", mimeType |-> "image/png",
                     data |-> DataUri("image/png", Payload("earlier", 4))]>>),
      UserMessage(<<>>, <<>>),
      ModelMessage(<<"answer">>, Generated, "g1"),
      ModelMessage(<<"answer">>, Generated, "g2"),
      ModelMessage(<<"answer">>, Generated, "g3"),
      ModelMessage(<<"answer">>, Generated, NoSelection),
      ModelMessage(<<>>, <<>>, NoSelection) }

InitContext ==
    /\ InitWith({1})
    /\ Arguments({"key"}, {<<"draw">>}, SeqsUpTo(Messages, MaxHistory), {<<>>})
    /\ NoStore
    /\ AppIdle

SpecContext == InitContext /\ [][NextRequest]_vars

\* --------------------------------------------------- a batch and its store
\* The store before the turn: empty, or an earlier turn whose answer has a
\* text and two images, none selected.
EarlierTurns ==
    { <<>>,
      << StoreMessage("u0", UserMessage(<<"earlier", "prompt">>, <<>>)),
         StoreMessage("m0", ModelMessage(<<"answer">>, Generated, NoSelection)) >> }

\* handleSend: the user message of the turn and the placeholder for its answer.
TurnMessages ==
    << StoreMessage("u", UserMessage(<<"draw">>, <<>>)),
       StoreMessage(ModelMessageId, ModelMessage(<<>>, <<>>, NoSelection)) >>

\* The batch gets the messages of before the turn as its history; the store
\* holds them and the two messages of the turn.
InitBatch ==
    /\ InitWith({1})
    /\ Arguments({"key"}, {<<"draw">>}, EarlierTurns, {<<>>})
    /\ messages = history \o TurnMessages
    /\ receivedImages = <<>>
    /\ receivedTexts = <<>>
    /\ AppIdle

\* The user selects or deselects an image of the earlier answer.
ToggleSelection(imageId) ==
    /\ messages' = SelectImage(messages, "m0", imageId)
    /\ messages' # messages
    /\ UNCHANGED <<batchSize, queue, completedCount, workers, aborted, result,
                   calls, sleeps, images, texts, progress, counted, dequeued,
                   safetyAt, onlyText, atAbort, apiKey, prompt, history,
                   uploadedImages, msgParts, formattedHistory, userParts, error,
                   sent, late, textParts, receivedImages, receivedTexts,
                   appVars>>

NextBatch ==
    \/ Start
    \/ \E w \in 1 .. MAX_CONCURRENT_REQUESTS : \E r \in TextResponses : ProviderReturn(w, r)
    \/ \E w \in 1 .. MAX_CONCURRENT_REQUESTS : SleepDone(w)
    \/ Abort
    \/ \E imageId \in {"g1", "g2"} : ToggleSelection(imageId)

SpecBatch == InitBatch /\ [][NextBatch]_vars

\* ------------------------------------------------------- the sink alone
\* The callbacks of concurrent workers reach the sink in any order and with
\* any repetition; the caller's catch block may mark the placeholder.
InitStore ==
    /\ InitWith({1})
    /\ FirstTurn
    /\ messages = TurnMessages
    /\ receivedImages = <<>>
    /\ receivedTexts = <<>>
    /\ AppIdle

PoolUntouched ==
    UNCHANGED <<batchSize, queue, completedCount, workers, aborted, result,
                calls, sleeps, images, texts, progress, counted, dequeued,
                safetyAt, onlyText, atAbort, apiKey, prompt, history,
                uploadedImages, msgParts, formattedHistory, userParts, error,
                sent, late, textParts>>

\* onImageGenerated(messageId, image)
OnImage(messageId, image) ==
    /\ Len(receivedImages) < MaxDeliveries
    /\ messages' = AddImageToMessage(messages, messageId, image)
    /\ receivedImages' = IF messageId = ModelMessageId
                         THEN Append(receivedImages, image) ELSE receivedImages
    /\ UNCHANGED <<receivedTexts, appVars>>
    /\ PoolUntouched

\* onTextGenerated(messageId, text)
OnText(messageId, text) ==
    /\ Len(receivedTexts) < MaxDeliveries
    /\ messages' = AddTextToMessage(messages, messageId, text)
    /\ receivedTexts' = IF messageId = ModelMessageId
                        THEN Append(receivedTexts, text) ELSE receivedTexts
    /\ UNCHANGED <<receivedImages, appVars>>
    /\ PoolUntouched

\* The batch call has thrown: the placeholder is marked as failed.
OnError ==
    /\ messages' = MarkError(messages, ModelMessageId)
    /\ messages' # messages
    /\ UNCHANGED <<receivedImages, receivedTexts, appVars>>
    /\ PoolUntouched

NextStore ==
    \/ \E id \in {ModelMessageId, "gone"} : \E image \in Range(Generated) : OnImage(id, image)
    \/ \E id \in {ModelMessageId, "gone"} : \E text \in {<<"a">>, <<"b">>} : OnText(id, text)
    \/ OnError

SpecStore == InitStore /\ [][NextStore]_vars

\* ---------------------------------------------------- the settings hook
\* What callers hand over as a batch size: every integer around the limits
\* and one value of each other kind.
BatchSizeInputs ==
    {JsInteger(n) : n \in MIN_BATCH_SIZE - 1 .. MAX_BATCH_SIZE + 1}
        \cup {JsFraction(1), NaN, Infinity, JsString, Null, Undefined}

Updates ==
    {[batchSize |-> v] : v \in BatchSizeInputs}
        \cup {[aspectRatio |-> a] : a \in {"Auto", "1:1", "16:9"}}
        \cup {[resolution |-> r] : r \in {"1K", "2K"}}
        \cup {[batchSize |-> v, aspectRatio |-> "1:1"] : v \in BatchSizeInputs}

InitSettings ==
    /\ InitWith({1})
    /\ FirstTurn
    /\ NoStore
    /\ HookIdle
    /\ SessionsIdle
    /\ settings \in {[DefaultSettings EXCEPT !.batchSize = JsInteger(b)] :
                        b \in {MIN_BATCH_SIZE, 2, MAX_BATCH_SIZE}}

UpdateSettingsCall(updates) ==
    /\ settings' = UpdateSettings(settings, updates)
    /\ UNCHANGED <<storeVars, isGenerating, shownProgress, abortControllerRef,
                   runs, reported, sessionVars>>
    /\ PoolUntouched

NextSettings == \E updates \in Updates : UpdateSettingsCall(updates)

SpecSettings == InitSettings /\ [][NextSettings]_vars

\* ------------------------------------------------- importing a package
\* The images of an imported model message: a successful one, a failed one
\* and a successful one whose data is empty.
Stored ==
    Generated \o << [id |-> "g3", status |-> "success",
                     mimeType |-> "image/png", data |-> <<>>] >>

\* A message of a package is a record over the keys its JSON object has; the
\* key images may be missing.
PackageMessage(role, selected) ==
    [id |-> "i", role |-> role, text |-> <<"text">>, textVariations |-> <<>>,
     uploadedImages |-> <<>>, selectedImageId |-> selected, isError |-> FALSE]

PackageMessages ==
    {PackageMessage("model", sel) : sel \in {NoSelection, "g1"}}
        \cup {PackageMessage("model", sel) @@ [images |-> Stored] :
                  sel \in {NoSelection, "g1", "g2", "g3", "gx"}}
        \cup {PackageMessage("user", sel) : sel \in {NoSelection, "g1"}}
        \cup {PackageMessage("user", "g2") @@ [images |-> Stored]}

\* The body of data.messages.map in handleImport.
Restore(msg) ==
    LET cleared == [msg EXCEPT !.selectedImageId = NoSelection]
    IN IF /\ msg.role = "model"
          /\ msg.selectedImageId # NoSelection
          /\ "images" \in DOMAIN msg
       THEN LET k == FindImage(msg.images, msg.selectedImageId)
            IN IF k = 0 THEN cleared
               ELSE IF msg.images[k].status # "success" THEN cleared
               ELSE IF msg.images[k].data = <<>> THEN cleared
               ELSE msg
       ELSE msg

\* The parsed files: with or without the key messages, with or without the
\* key settings.
Packages ==
    LET lists == SeqsUpTo(PackageMessages, MaxPackage)
        imported == {[batchSize |-> JsInteger(5), aspectRatio |-> "1:1",
                      resolution |-> "2K"],
                     [batchSize |-> Null, aspectRatio |-> "1:1"]}
    IN {[messages |-> l] : l \in lists}
           \cup {[messages |-> l, settings |-> u] : l \in lists, u \in imported}
           \cup {[settings |-> u] : u \in imported}

InitImport ==
    /\ InitWith({1})
    /\ FirstTurn
    /\ NoStore
    /\ AppIdle

\* handleImport on a file that parses to data; the user confirms the
\* replacement of the conversation or not.
HandleImport(data, confirmed) ==
    /\ IF "messages" \in DOMAIN data /\ confirmed
       THEN /\ messages' = [i \in 1 .. Len(data.messages) |->
                               Restore(data.messages[i])]
            /\ settings' = IF "settings" \in DOMAIN data
                           THEN UpdateSettings(settings, data.settings)
                           ELSE settings
       ELSE UNCHANGED <<messages, settings>>
    /\ UNCHANGED <<receivedImages, receivedTexts, isGenerating, shownProgress,
                   abortControllerRef, runs, reported, sessionVars>>
    /\ PoolUntouched

NextImport ==
    \E data \in Packages : \E confirmed \in BOOLEAN : HandleImport(data, confirmed)

SpecImport == InitImport /\ [][NextImport]_vars

\* -------------------------------------------------- the generation hook
\* A run is one call of generateImages or retryGeneration that got past the
\* API key test: the model message it fills, its AbortController (aborted),
\* the state of the promise of its batch call, and the number of images the
\* message had (0 for generateImages, currentImageCount for
\* retryGeneration). runs[r] is the r-th run; abortControllerRef is the run
\* whose controller the ref holds, 0 for null.
Run(modelMessageId, currentImageCount) ==
    [message |-> modelMessageId, aborted |-> FALSE, status |-> "running",
     offset |-> currentImageCount]

Hook ==
    [isGenerating |-> isGenerating, progress |-> shownProgress,
     ref |-> abortControllerRef, runs |-> runs]

\* Variant: stopping flips the token of the run and keeps the ref.
StopGenerationToggles(h) ==
    IF h.ref # 0
    THEN [h EXCEPT !.runs[h.ref].aborted = ~@,
                   !.isGenerating = FALSE, !.progress = NoProgress]
    ELSE h

\* stopGeneration, as a function of the state of the hook.
StopGeneration(h) ==
    IF h.ref # 0
    THEN [h EXCEPT !.runs[h.ref].aborted = TRUE, !.ref = 0,
                   !.isGenerating = FALSE, !.progress = NoProgress]
    ELSE h

\* The finally block of a run, which reads the ref as it is when the run
\* settles.
Finally(h) ==
    IF h.ref # 0 /\ ~h.runs[h.ref].aborted
    THEN [h EXCEPT !.isGenerating = FALSE, !.progress = NoProgress, !.ref = 0]
    ELSE h

\* The test of the catch block: !abortControllerRef.current?.signal.aborted.
CatchReports(h) == h.ref = 0 \/ ~h.runs[h.ref].aborted

SetHook(h) ==
    /\ isGenerating' = h.isGenerating
    /\ shownProgress' = h.progress
    /\ abortControllerRef' = h.ref
    /\ runs' = h.runs

\* onError(modelMessageId, error): reported lists the calls in their order.
OnErrorCall(log, modelMessageId, err) ==
    Append(log, [message |-> modelMessageId, error |-> err])

HookOnly == UNCHANGED <<storeVars, settings, sessionVars>> /\ PoolUntouched

InitHook ==
    /\ InitWith({1})
    /\ FirstTurn
    /\ NoStore
    /\ AppIdle

\* Variant: the API key is tested after the state has been set.
GenerateImagesSetsStateFirst(h, log, modelMessageId, currentImageCount, hasKey) ==
    LET begun == [h EXCEPT !.isGenerating = TRUE,
                           !.progress = [current |-> currentImageCount,
                                         total |-> currentImageCount + settings.batchSize.n]]
    IN IF ~hasKey
       THEN [hook |-> begun,
             reported |-> OnErrorCall(log, modelMessageId, "APIKeyError")]
       ELSE [hook |-> [begun EXCEPT !.ref = Len(h.runs) + 1,
                                    !.runs = Append(h.runs, Run(modelMessageId, currentImageCount))],
             reported |-> log]

\* generateImages (currentImageCount = 0) or retryGeneration up to the await
\* of the batch call, as a function of the state of the hook and of the log
\* of onError calls. Without an API key the error is reported and the call
\* returns; otherwise the state is set and the batch call is made.
GenerateImages(h, log, modelMessageId, currentImageCount, hasKey) ==
    IF ~hasKey
    THEN [hook |-> h,
          reported |-> OnErrorCall(log, modelMessageId, "APIKeyError")]
    ELSE [hook |-> [isGenerating |-> TRUE,
                    progress |-> [current |-> currentImageCount,
                                  total |-> currentImageCount + settings.batchSize.n],
                    ref |-> Len(h.runs) + 1,
                    runs |-> Append(h.runs, Run(modelMessageId, currentImageCount))],
          reported |-> log]

\* The handler of the caller returns at once while isGenerating is set.
Generate(modelMessageId, currentImageCount, hasKey) ==
    /\ ~isGenerating
    /\ IF hasKey THEN Len(runs) < MaxRuns ELSE Len(reported) < MaxRuns
    /\ LET call == GenerateImages(Hook, reported, modelMessageId,
                                  currentImageCount, hasKey)
       IN /\ SetHook(call.hook)
          /\ reported' = call.reported
    /\ HookOnly

\* The user presses stop.
Stop ==
    /\ SetHook(StopGeneration(Hook))
    /\ UNCHANGED reported
    /\ HookOnly

\* onProgress of run r: a slot of its batch is counted, which the pool does
\* only while the signal of the run is not aborted.
OnProgress(r, current) ==
    /\ runs[r].status = "running"
    /\ ~runs[r].aborted
    /\ shownProgress' = [current |-> runs[r].offset + current,
                         total |-> runs[r].offset + settings.batchSize.n]
    /\ UNCHANGED <<isGenerating, abortControllerRef, runs, reported>>
    /\ HookOnly

\* The batch call of run r resolves: its finally block runs.
Settle(r) ==
    /\ runs[r].status = "running"
    /\ SetHook(Finally([Hook EXCEPT !.runs[r].status = "resolved"]))
    /\ UNCHANGED reported
    /\ HookOnly

\* The batch call of run r rejects: the catch block runs, then the finally
\* block.
Reject(r) ==
    /\ runs[r].status = "running"
    /\ LET h == [Hook EXCEPT !.runs[r].status = "rejected"]
       IN /\ reported' = IF CatchReports(h)
                         THEN OnErrorCall(reported, runs[r].message, "rejected")
                         ELSE reported
          /\ SetHook(Finally(h))
    /\ HookOnly

NextHook ==
    \/ \E id \in {"m", "n"} : \E c \in {0, 1} : \E hasKey \in BOOLEAN : Generate(id, c, hasKey)
    \/ Stop
    \/ \E r \in 1 .. Len(runs) : \E current \in 1 .. settings.batchSize.n : OnProgress(r, current)
    \/ \E r \in 1 .. Len(runs) : Settle(r)
    \/ \E r \in 1 .. Len(runs) : Reject(r)

SpecHook == InitHook /\ [][NextHook]_vars

\* ---------------------------------------------------- the session hook
\* SpecSession: up to MaxSessions sessions are created, the one of the first
\* render included.
SessionIds == 1 .. MaxSessions

\* The ids a caller may pass: those of sessions and one that never existed.
SessionArguments == SessionIds \cup {0}

Listed(ids, sessionId) == \E i \in 1 .. Len(ids) : ids[i] = sessionId

\* The first render: what localStorage holds decides the state.
InitSession ==
    /\ InitWith({1})
    /\ FirstTurn
    /\ NoStore
    /\ HookIdle
    /\ settings = DefaultSettings
    /\ \E stored \in {<<>>, <<1>>, <<1, 2>>} : \E storedId \in {0, 1, 2, MaxSessions} :
          /\ sessionState = InitialSessionState(stored, storedId)
          /\ createdSessions = IF stored = <<>> THEN 1 ELSE Len(stored)
    /\ rendered = sessionState

SessionOnly ==
    /\ UNCHANGED <<storeVars, isGenerating, shownProgress, abortControllerRef,
                   runs, reported, settings>>
    /\ PoolUntouched

\* createSession: the new session is appended and made current.
CreateSession ==
    /\ createdSessions < MaxSessions
    /\ LET newSession == CreateNewSession(createdSessions)
       IN /\ sessionState' =
                 [sessions |-> Append(sessionState.sessions, newSession),
                  currentSessionId |-> newSession]
          /\ createdSessions' = newSession
    /\ UNCHANGED rendered
    /\ SessionOnly

\* switchSession(sessionId): the id is looked up in the sessions the callback
\* was created with.
SwitchSession(sessionId) ==
    /\ sessionState' = IF Listed(rendered.sessions, sessionId)
                       THEN [sessionState EXCEPT !.currentSessionId = sessionId]
                       ELSE sessionState
    /\ UNCHANGED <<rendered, createdSessions>>
    /\ SessionOnly

\* deleteSession(sessionId): the updater filters the latest sessions and
\* compares sessionId with the currentSessionId the callback was created
\* with.
DeleteSession(sessionId) ==
    LET filtered == SelectSeq(sessionState.sessions, LAMBDA id : id # sessionId)
        newSession == CreateNewSession(createdSessions)
    IN /\ IF sessionId = rendered.currentSessionId
          THEN IF Len(filtered) = 0
               THEN /\ createdSessions < MaxSessions
                    /\ sessionState' = [sessions |-> <<newSession>>,
                                        currentSessionId |-> newSession]
                    /\ createdSessions' = newSession
               ELSE /\ sessionState' = [sessions |-> filtered,
                                        currentSessionId |-> filtered[1]]
                    /\ UNCHANGED createdSessions
          ELSE /\ sessionState' = [sessionState EXCEPT !.sessions = filtered]
               /\ UNCHANGED createdSessions
       /\ UNCHANGED rendered
       /\ SessionOnly

\* The component renders again: the callbacks are created anew with the
\* state as it is.
Render ==
    /\ rendered # sessionState
    /\ rendered' = sessionState
    /\ UNCHANGED <<sessionState, createdSessions>>
    /\ SessionOnly

SessionCall ==
    \/ CreateSession
    \/ \E sessionId \in SessionArguments : SwitchSession(sessionId)
    \/ \E sessionId \in SessionArguments : DeleteSession(sessionId)

NextSession == SessionCall \/ Render

SpecSession == InitSession /\ [][NextSession]_vars

\* The same calls, each made by a callback of the latest render.
SpecSessionRendered ==
    /\ InitSession
    /\ [][\/ SessionCall /\ rendered = sessionState
          \/ Render]_vars

\* ------------------------------------------------------------ properties
Active(s) == \E w \in DOMAIN workers : workers[w].index = s

HasSuccess(s) == \E i \in 1 .. Len(images[s]) : images[s][i].status = "success"

HasError(s) == \E i \in 1 .. Len(images[s]) : images[s][i].status = "error"

InFlight == Cardinality({w \in DOMAIN workers : workers[w].pc = "calling"})

Uncancelled == result = "resolved" /\ ~aborted

BackoffSchedule == <<1000, 2000, 4000>>

\* C1: every slot's deliveries are either nothing yet, success images that all
\* come from one provider answer, or exactly one error placeholder, never a
\* mix; and when an uncancelled run has resolved no slot is left with nothing.
C1_SlotOutcome ==
    \A s \in Slots :
        /\ \/ images[s] = <<>>
           \/ /\ Len(images[s]) = 1
              /\ images[s][1].status = "error"
           \/ \A i \in 1 .. Len(images[s]) :
                  /\ images[s][i].status = "success"
                  /\ images[s][i].call = images[s][1].call
        /\ Uncancelled => images[s] # <<>>

C1_Witness ==
    /\ Uncancelled
    /\ batchSize >= 2
    /\ \E s \in Slots : Len(images[s]) = 2 /\ HasSuccess(s)
    /\ \E s \in Slots : HasError(s)

\* C2: the completed values given to onProgress never decrease, the total is
\* always batchSize, and an uncancelled run that has resolved has called
\* onProgress exactly batchSize times, the last time with (batchSize, batchSize).
C2_Progress ==
    /\ \A i \in 1 .. Len(progress) :
           /\ progress[i].total = batchSize
           /\ i > 1 => progress[i - 1].completed <= progress[i].completed
    /\ Uncancelled =>
           /\ Len(progress) = batchSize
           /\ progress[batchSize] = [completed |-> batchSize, total |-> batchSize]

\* The second slot finished before the first one.
C2_Witness ==
    /\ Uncancelled
    /\ batchSize >= 2
    /\ calls[0] > calls[1]
    /\ Len(progress) = batchSize

\* C3: once the signal is aborted the number of dequeued indices and the
\* number of onProgress calls stay what they were at the abort; the returned
\* promise is never rejected and is resolved as soon as every worker returned.
C3_AbortStopsDequeue ==
    /\ aborted =>
           /\ Len(dequeued) = atAbort.dequeued
           /\ Len(progress) = atAbort.progress
    /\ result \in {"none", "pending", "resolved"}
    /\ (workers # <<>> /\ \A w \in DOMAIN workers : workers[w].pc = "done")
           => result = "resolved"

\* Aborted after a first slot was reported and with an index still queued:
\* every worker came back from its call, found the queue non-empty and
\* returned without taking the index or reporting progress.
C3_Witness ==
    /\ aborted
    /\ result = "resolved"
    /\ queue # <<>>
    /\ atAbort.progress >= 1
    /\ Len(progress) = atAbort.progress
    /\ \E s \in Slots : HasSuccess(s) /\ ~counted[s]

\* C4: after the abort no provider call is started and no backoff sleep
\* begins, for any slot, and no error placeholder or progress report is
\* added; a placeholder is only ever delivered together with the slot's
\* progress report, so a slot dropped at the abort check reports no outcome.
C4_NoCallAfterAbort ==
    /\ aborted =>
           /\ calls = atAbort.calls
           /\ sleeps = atAbort.sleeps
           /\ Len(progress) = atAbort.progress
           /\ \A s \in Slots : ErrorCount(images[s]) = atAbort.errors[s]
    /\ \A s \in Slots : HasError(s) => counted[s]
    /\ \A s \in Slots :
           (aborted /\ ~counted[s] /\ ~HasSuccess(s)) => images[s] = <<>>

\* Aborted during the backoff sleep: the worker woke up and returned.
C4_Witness ==
    /\ aborted
    /\ \E s \in Slots :
           /\ calls[s] >= 1
           /\ Len(sleeps[s]) = calls[s]
           /\ ~Active(s)
           /\ images[s] = <<>>
           /\ ~counted[s]

\* C5: a slot makes at most MAX_RETRIES + 1 provider calls and sleeps
\* 1000, 2000, 4000 ms after its first, second and third failed call; a slot
\* that ends with an error placeholder without a SAFETY answer has made
\* exactly 4 calls and 3 sleeps and delivered exactly that one image; and in a
\* run not aborted a finished slot without success has its placeholder.
C5_RetryBound ==
    \A s \in Slots :
        /\ calls[s] <= MAX_RETRIES + 1
        /\ Len(sleeps[s]) <= MAX_RETRIES
        /\ sleeps[s] = SubSeq(BackoffSchedule, 1, Len(sleeps[s]))
        /\ Len(sleeps[s]) <= calls[s]
        /\ (HasError(s) /\ safetyAt[s] = 0) =>
               /\ calls[s] = MAX_RETRIES + 1
               /\ sleeps[s] = BackoffSchedule
               /\ images[s] = <<ErrorImage>>
        /\ (~aborted /\ calls[s] >= 1 /\ ~Active(s) /\ ~HasSuccess(s)) =>
               images[s] = <<ErrorImage>>

C5_Witness ==
    \E s \in Slots :
        /\ calls[s] = 4
        /\ sleeps[s] = <<1000, 2000, 4000>>
        /\ safetyAt[s] = 0
        /\ images[s] = <<ErrorImage>>
        /\ counted[s]

\* C6: a slot answered with finish reason SAFETY on its k-th call has made
\* exactly k calls and k - 1 sleeps and is no longer worked on; unless the
\* run was aborted it has delivered exactly one error placeholder and its
\* progress report.
C6_SafetyNotRetried ==
    \A s \in Slots :
        safetyAt[s] > 0 =>
            /\ calls[s] = safetyAt[s]
            /\ Len(sleeps[s]) = safetyAt[s] - 1
            /\ ~Active(s)
            /\ \/ images[s] = <<ErrorImage>> /\ counted[s]
               \/ aborted /\ images[s] = <<>> /\ ~counted[s]
            /\ ~aborted => (images[s] = <<ErrorImage>> /\ counted[s])

C6_Witness ==
    /\ ~aborted
    /\ \E s \in Slots :
           /\ safetyAt[s] = 1
           /\ calls[s] = 1
           /\ sleeps[s] = <<>>
           /\ images[s] = <<ErrorImage>>
           /\ counted[s]

\* C7: a slot whose answers were all text-only has no success image and has
\* slept once per answer up to the third; with batchSize = 1, an uncancelled
\* run whose answers were all text-only made 4 calls, delivered exactly one
\* error placeholder and reported onProgress(1, 1) once.
C7_TextOnlyRetried ==
    /\ \A s \in Slots :
           (onlyText[s] /\ calls[s] >= 1) =>
               /\ ~HasSuccess(s)
               /\ texts[s] >= Len(sleeps[s])
    /\ (batchSize = 1 /\ Uncancelled /\ onlyText[0]) =>
           /\ calls[0] = MAX_RETRIES + 1
           /\ sleeps[0] = BackoffSchedule
           /\ images[0] = <<ErrorImage>>
           /\ progress = <<[completed |-> 1, total |-> 1]>>

C7_Witness ==
    /\ batchSize = 1
    /\ Uncancelled
    /\ onlyText[0]
    /\ calls[0] = 4
    /\ texts[0] >= 4
    /\ progress = <<[completed |-> 1, total |-> 1]>>

\* C8: the number of error placeholders of every slot is, after the abort,
\* what it was at the abort; an error placeholder has empty data and empty
\* mimeType and belongs to a slot without success image whose progress was
\* reported.
C8_ErrorPlaceholder ==
    \A s \in Slots :
        /\ aborted => ErrorCount(images[s]) = atAbort.errors[s]
        /\ \A i \in 1 .. Len(images[s]) :
               images[s][i].status = "error" =>
                   /\ images[s][i].data = ""
                   /\ images[s][i].mimeType = ""
                   /\ ~HasSuccess(s)
                   /\ counted[s]

\* A slot failed before the abort, another one met a SAFETY answer after it.
C8_Witness ==
    /\ aborted
    /\ \E s \in Slots : HasError(s) /\ atAbort.errors[s] = 1
    /\ \E s \in Slots : safetyAt[s] > 0 /\ images[s] = <<>> /\ ~Active(s)

\* C9: the number of workers, and the number of provider calls in flight,
\* never exceed min(MAX_CONCURRENT_REQUESTS, batchSize).
C9_WorkerCap ==
    /\ Len(workers) <= Min(10, batchSize)
    /\ InFlight <= Min(10, batchSize)

C9_Witness ==
    /\ batchSize > 10
    /\ Len(workers) = 10
    /\ InFlight = 10
    /\ queue # <<>>

\* C10: the indices dequeued so far, followed by the queue, are 0..batchSize-1
\* in increasing order; no two workers hold the same index; an uncancelled
\* run that has resolved has dequeued every index.
C10_Fifo ==
    /\ \A i \in 1 .. Len(dequeued) : dequeued[i] = i - 1
    /\ \A i \in 1 .. Len(queue) : queue[i] = Len(dequeued) + i - 1
    /\ result # "none" => Len(dequeued) + Len(queue) = batchSize
    /\ \A w \in DOMAIN workers :
           workers[w].index # NoIndex =>
               \A v \in 1 .. (w - 1) : workers[v].index # workers[w].index
    /\ Uncancelled => (queue = <<>> /\ Len(dequeued) = batchSize)

\* A freed worker other than the first has taken the index left in the queue.
C10_Witness ==
    /\ batchSize > 10
    /\ ~aborted
    /\ queue = <<>>
    /\ \E w \in DOMAIN workers :
           /\ w # 1
           /\ workers[w].index = batchSize - 1
           /\ workers[w].pc = "calling"
    /\ workers[1].pc = "calling"

\* C11: no failure inside a slot (a thrown call, no candidate, no parts, no
\* image, a safety block) makes the call reject: it is never rejected, it is
\* resolved exactly when every worker has returned, and in an uncancelled
\* resolved run a slot without success shows exactly one error-status image.
C11_SlotFailuresNeverReject ==
    /\ result # "rejected"
    /\ error = "none"
    /\ result = "resolved" <=>
           (workers # <<>> /\ \A w \in DOMAIN workers : workers[w].pc = "done")
    /\ Uncancelled =>
           \A s \in Slots : ~HasSuccess(s) => images[s] = <<ErrorImage>>

C11_Witness ==
    /\ Uncancelled
    /\ batchSize = 2
    /\ \E s \in Slots : safetyAt[s] > 0 /\ HasError(s)
    /\ \E s \in Slots : safetyAt[s] = 0 /\ calls[s] = MAX_RETRIES + 1 /\ HasError(s)

\* A reference image passes the validation: it decodes and is not too large.
ValidUpload(img) == Base64Match(img.data) /\ ~Oversized(img.data[4].length)

Supplied == Len(uploadedImages)

Included == Cardinality({i \in 1 .. Supplied : ValidUpload(uploadedImages[i])})

\* The call has got past its preparation: workers exist.
Dispatched == result \in {"pending", "resolved"}

NothingHappened ==
    /\ workers = <<>>
    /\ queue = <<>>
    /\ dequeued = <<>>
    /\ progress = <<>>
    /\ sent = {}
    /\ \A s \in Slots :
          calls[s] = 0 /\ sleeps[s] = <<>> /\ images[s] = <<>> /\ texts[s] = 0

\* C12: a call with an empty API key, with reference images none of which is
\* valid, or with neither prompt nor included image is rejected, and a
\* rejected call has started no worker, made no provider call, slept for no
\* retry and invoked none of onImage, onText, onProgress.
C12_PreDispatchFailure ==
    /\ (/\ result # "none"
        /\ \/ apiKey = ""
           \/ Supplied > 0 /\ Included = 0
           \/ prompt = <<>> /\ Included = 0)
       => result = "rejected" /\ error # "none"
    /\ result = "rejected" => NothingHappened

C12_Witness ==
    /\ result = "rejected"
    /\ apiKey # ""
    /\ prompt # <<>>
    /\ Supplied = 2
    /\ NothingHappened

\* The parts of every Content of every request sent so far.
SentParts ==
    UNION { UNION { Range(c[j].parts) : j \in 1 .. Len(c) } : c \in sent }

HistoryOf(role) == {i \in 1 .. Len(history) : history[i].role = role}

\* The texts and the decodable upload payloads of the earlier user messages.
EarlierUserTexts == {history[i].text : i \in HistoryOf("user")} \ {<<>>}

EarlierUserPayloads ==
    UNION { { history[i].uploadedImages[k].data[4] :
                k \in {n \in 1 .. Len(history[i].uploadedImages) :
                          Base64Match(history[i].uploadedImages[n].data)} } :
            i \in HistoryOf("user") }

\* C13: no request carries a text part or an image part taken from an
\* earlier user message: neither its prompt text nor one of its uploads.
C13_NoEarlierUserContent ==
    \A q \in SentParts :
        /\ q.kind = "text" => q.text \notin EarlierUserTexts
        /\ q.kind = "inlineData" => q.data \notin EarlierUserPayloads

\* The image parts among parts, in order.
ImagePartsOf(parts) == SelectSeq(parts, LAMBDA q : q.kind = "inlineData")

\* The positions of the images of msg that its selection validly points to.
OwnSelection(msg) ==
    {k \in 1 .. Len(msg.images) :
        msg.images[k].id = msg.selectedImageId /\ msg.images[k].status = "success"}

\* C14: once the request is built, an earlier model message contributes an
\* image exactly when its selectedImageId is the id of one of its own success
\* images, and then that one image and no other; without selection, with a
\* selection matching no image or pointing to an error image it contributes
\* none.  What a message contributes is what the request carries for it.
C14_SelectedImageOnly ==
    Dispatched =>
        /\ \A i \in HistoryOf("model") :
              LET msg  == history[i]
                  imgs == ImagePartsOf(msgParts[i])
              IN IF OwnSelection(msg) = {}
                 THEN imgs = <<>>
                 ELSE /\ Len(imgs) = 1
                      /\ \E k \in OwnSelection(msg) :
                            /\ DataUri(imgs[1].mimeType, imgs[1].data)
                                  = msg.images[k].data
                            /\ imgs[1].mimeType = msg.images[k].mimeType
        /\ formattedHistory =
              SelectSeq([i \in 1 .. Len(history) |->
                            [role |-> history[i].role, parts |-> msgParts[i]]],
                        LAMBDA c : c.parts # <<>>)
        /\ sent = {Contents(formattedHistory, userParts)}

C14_Witness ==
    /\ Dispatched
    /\ Len(history) = 2
    /\ history[1].role = "model" /\ history[1].selectedImageId = "g1"
    /\ history[2].role = "model" /\ history[2].selectedImageId = "g2"
    /\ Len(ImagePartsOf(msgParts[1])) = 1
    /\ sent # {}

EarlierModelTexts ==
    UNION { {history[i].text} \cup Range(history[i].textVariations) :
            i \in HistoryOf("model") } \ {<<>>}

\* C15: no text part of a request is the text, or one of the textVariations,
\* of an earlier model message.
C15_NoEarlierModelText ==
    \A q \in SentParts : q.kind = "text" => q.text \notin EarlierModelTexts

\* The payloads of the validly selected images of the earlier model messages.
SelectedPayloads ==
    UNION { {AfterComma(history[i].images[k].data) : k \in OwnSelection(history[i])} :
            i \in HistoryOf("model") }

\* C16: every request consists of the current user turn alone, its history
\* portion is empty, no image travels under the model role, and the selected
\* continuation images are among the parts of the current user turn.
C16_SelectionInUserTurn ==
    /\ Dispatched => formattedHistory = <<>>
    /\ \A c \in sent :
          /\ Len(c) = 1
          /\ \A j \in 1 .. Len(c) :
                c[j].role = "model" => ImagePartsOf(c[j].parts) = <<>>
          /\ \A d \in SelectedPayloads :
                \E q \in Range(c[Len(c)].parts) : q.kind = "inlineData" /\ q.data = d

\* The n-th entry of a legend, for n below ten.
LegendEntry(n) ==
    <<"TU", CJKNumerals[n], "(", "DI", DigitTokens[n + 1], "ZHANG", "UPLOADED", ")">>

\* text is a legend of k entries, numbered 1..k in order, followed by p.
LegendThenPrompt(text, k, p) ==
    /\ Len(text) = 9 * k + 3 + Len(p)
    /\ text[1] = "LEGEND:"
    /\ \A n \in 1 .. k :
          /\ SubSeq(text, 9 * n - 7, 9 * n) = LegendEntry(n)
          /\ n < k => text[9 * n + 1] = ","
    /\ SubSeq(text, 9 * k + 1, 9 * k + 3) = <<".", "NL", "NL">>
    /\ SubSeq(text, 9 * k + 4, Len(text)) = p

\* C17, as stated: whenever the turn supplies more than one reference image
\* and the prompt references an image ordinal, the turn's text part starts
\* with a legend, followed by the original prompt.
C17_LegendWhenSupplied ==
    (Dispatched /\ Supplied > 1 /\ HasImageReference(prompt)) =>
        /\ userParts[1].kind = "text"
        /\ \E k \in 1 .. Supplied : LegendThenPrompt(userParts[1].text, k, prompt)

\* C17, amended: whenever more than one reference image is included in the
\* turn (passes validation) and the prompt references an image ordinal, the
\* turn's first part is a text that starts with a legend of one entry per
\* included image, followed by the original prompt.
C17_LegendWhenIncluded ==
    (Dispatched /\ Included > 1 /\ HasImageReference(prompt)) =>
        /\ userParts[1].kind = "text"
        /\ LegendThenPrompt(userParts[1].text, Included, prompt)

C17_Witness ==
    /\ Dispatched
    /\ Supplied = 2
    /\ Included = 2
    /\ prompt = <<"use", "image", " ", "2">>
    /\ userParts[1].text[1] = "LEGEND:"

\* C18: a reference image that does not decode is not among the parts of the
\* turn, and the call is dispatched all the same when at least one supplied
\* image is valid; when images were supplied and none is valid the call is
\* rejected, with the validation error unless the key was missing.
C18_UndecodableDropped ==
    /\ Dispatched =>
          /\ Len(ImagePartsOf(userParts)) = Included
          /\ \A q \in Range(ImagePartsOf(userParts)) :
                \E i \in 1 .. Supplied :
                    /\ Base64Match(uploadedImages[i].data)
                    /\ q.data = uploadedImages[i].data[4]
    /\ (result # "none" /\ apiKey # "" /\ Included >= 1) => Dispatched
    /\ (result # "none" /\ Supplied > 0 /\ Included = 0) =>
          /\ result = "rejected"
          /\ apiKey # "" => error = "No valid images could be processed"

C18_Witness ==
    /\ Dispatched
    /\ Supplied = 2
    /\ Included = 1
    /\ \E i \in 1 .. Supplied : ~Base64Match(uploadedImages[i].data)

\* The estimate length * 3 / 4 is above the ceiling of MaxImageMB MiB.
OverCeiling(length) == length > LimitLength

OversizedUploads ==
    {i \in 1 .. Supplied :
        Base64Match(uploadedImages[i].data)
          /\ OverCeiling(uploadedImages[i].data[4].length)}

\* C19, as stated: a turn with an oversized reference image and other
\* content (here a prompt) is never failed by it: the call is dispatched
\* without the image.
C19_OversizedNeverFatal ==
    (result # "none" /\ apiKey # "" /\ prompt # <<>> /\ OversizedUploads # {}) =>
        /\ Dispatched
        /\ \A q \in Range(userParts) :
              q.kind = "inlineData" => ~OverCeiling(q.data.length)

\* C19, amended: an image whose estimate exceeds the ceiling is never part
\* of a request, and an image that decodes and is at or under the ceiling
\* is; dropping is not fatal while at least one supplied image is included,
\* but when every supplied image has been dropped the call is rejected with
\* the validation error, prompt or not.
C19_OversizedDropped ==
    /\ \A q \in Range(userParts) \cup SentParts :
          q.kind = "inlineData" => ~OverCeiling(q.data.length)
    /\ Dispatched =>
          \A i \in 1 .. Supplied :
              (Base64Match(uploadedImages[i].data) /\ i \notin OversizedUploads)
                  => \E q \in Range(userParts) :
                        q.kind = "inlineData" /\ q.data = uploadedImages[i].data[4]
    /\ (result # "none" /\ apiKey # "" /\ OversizedUploads # {} /\ Included >= 1)
          => Dispatched
    /\ (result # "none" /\ apiKey # "" /\ Supplied > 0
           /\ OversizedUploads = 1 .. Supplied)
          => result = "rejected" /\ error = "No valid images could be processed"

C19_Witness ==
    /\ result = "rejected"
    /\ apiKey # ""
    /\ prompt = <<"draw">>
    /\ Supplied = 1
    /\ OversizedUploads = {1}

\* C20: the current-turn Content of every request has at least one part, and
\* a call with an empty prompt and no included reference image is rejected
\* without any provider call.
C20_TurnNotEmpty ==
    /\ Dispatched => Len(userParts) >= 1
    /\ \A c \in sent :
          /\ c[Len(c)].role = "user"
          /\ Len(c[Len(c)].parts) >= 1
    /\ (result # "none" /\ prompt = <<>> /\ Included = 0) =>
          /\ result = "rejected"
          /\ sent = {}
          /\ \A s \in Slots : calls[s] = 0

C20_Witness ==
    /\ result = "rejected"
    /\ error = "At least one image or text prompt is required"
    /\ prompt = <<>>
    /\ Supplied = 0
    /\ sent = {}

\* The payloads of the reference images that pass validation, as supplied.
IncludedPayloads ==
    LET kept == SelectSeq(uploadedImages, ValidUpload)
    IN [i \in 1 .. Len(kept) |-> kept[i].data[4]]

\* C21: in the current turn the text part, present exactly when the prompt is
\* not empty, is the first part, and the parts after it are the turn's
\* included reference images in the order in which they were supplied.
C21_TextThenImages ==
    Dispatched =>
        LET n    == IF prompt # <<>> THEN 1 ELSE 0
            rest == SubSeq(userParts, n + 1, Len(userParts))
        IN /\ Len(userParts) = n + Len(IncludedPayloads)
           /\ n = 1 => userParts[1].kind = "text"
           /\ \A i \in 1 .. Len(rest) :
                 /\ rest[i].kind = "inlineData"
                 /\ rest[i].data = IncludedPayloads[i]

C21_Witness ==
    /\ Dispatched
    /\ prompt # <<>>
    /\ Len(userParts) = 3
    /\ userParts[2].data.tag = "limit"
    /\ userParts[3].data.tag = "small"

\* C22: the abort cancels no provider call.  When the answer of a call that
\* was in flight at the abort arrives, its image parts and text parts are
\* delivered through onImage and onText all the same, the worker makes no
\* further call and returns, and the slot gets neither an error placeholder
\* nor a progress report.
C22_LateAnswerDelivered ==
    \A s \in Slots :
        late[s] # NoAnswer =>
            /\ aborted
            /\ images[s] = (IF late[s].kind = "parts"
                            THEN ImagesOf(late[s].parts, calls[s]) ELSE <<>>)
            /\ texts[s] = atAbort.texts[s]
                            + (IF late[s].kind = "parts"
                               THEN CountOf(late[s].parts, "txt") ELSE 0)
            /\ calls[s] = atAbort.calls[s]
            /\ sleeps[s] = atAbort.sleeps[s]
            /\ ~HasError(s)
            /\ ~counted[s]
            /\ Len(progress) = atAbort.progress
            /\ ~Active(s)

C22_Witness ==
    /\ result = "resolved"
    /\ aborted
    /\ late[0].parts = <<"txt", "img">>
    /\ Len(images[0]) = 1
    /\ texts[0] > atAbort.texts[0]
    /\ progress = <<>>

\* The placeholder of the turn in the store of SpecBatch.
Placeholder == messages[Len(history) + 2]

\* C23: every provider request of a batch carries the same contents, the
\* history and the current-turn parts built from the arguments at the start,
\* whatever the store has become in the meantime; the messages handed over
\* as history are touched by no worker (only the user's selection changes
\* them), and the placeholder holds exactly what onImage and onText brought.
C23_ContentsBuiltOnce ==
    /\ Cardinality(sent) <= 1
    /\ \A c \in sent :
          c = Contents(BuildHistory(history),
                       TurnParts(prompt, ValidImages(uploadedImages)))
    /\ Dispatched => formattedHistory = BuildHistory(history)
    /\ Len(messages) = Len(history) + 2
    /\ \A i \in 1 .. Len(history) :
          [messages[i] EXCEPT !.selectedImageId = history[i].selectedImageId]
              = history[i]
    /\ Len(Placeholder.images) = Len(images[0])
    /\ \A n \in 1 .. Len(images[0]) :
          Placeholder.images[n].status = images[0][n].status
    /\ Placeholder.textVariations = (IF texts[0] > 0 THEN <<ReplyText>> ELSE <<>>)

C23_Witness ==
    /\ Cardinality(sent) = 1
    /\ calls[0] >= 2
    /\ Placeholder.text = ReplyText
    /\ Len(history) = 2
    /\ messages[2].selectedImageId = "g1"
    /\ result = "resolved"

\* seq without the repetitions of its elements, in the order of their first
\* occurrence.
RECURSIVE FirstOccurrences(_)
FirstOccurrences(seq) ==
    IF seq = <<>> THEN <<>>
    ELSE LET front == FirstOccurrences(SubSeq(seq, 1, Len(seq) - 1))
             last  == seq[Len(seq)]
         IN IF last \in Range(front) THEN front ELSE Append(front, last)

\* C24: the sink is idempotent and append-only: the placeholder's images are
\* the images delivered so far and its textVariations the texts delivered so
\* far, each once however often it was delivered, in the order of the first
\* delivery.
C24_SinkIdempotent ==
    /\ Placeholder.images = FirstOccurrences(receivedImages)
    /\ Placeholder.textVariations = FirstOccurrences(receivedTexts)

C28_BatchSizeInRange ==
    /\ settings.batchSize.kind = "integer"
    /\ settings.batchSize.n \in MIN_BATCH_SIZE .. MAX_BATCH_SIZE

\* The same for the calls that do not write undefined: a batch size that is
\* not undefined is an integer from 1 to 20.
BatchSizeValidUnlessUndefined ==
    settings.batchSize # Undefined => C28_BatchSizeInRange

\* msg has a selection that is one of its successful images.
SelectionValid(msg) ==
    /\ "images" \in DOMAIN msg
    /\ \E k \in 1 .. Len(msg.images) :
          /\ msg.images[k].id = msg.selectedImageId
          /\ msg.images[k].status = "success"

\* C26: after an import, every message whose selectedImageId is set
\* references one of its own images whose status is success.
C26_ImportedSelectionValid ==
    \A i \in 1 .. Len(messages) :
        messages[i].selectedImageId # NoSelection => SelectionValid(messages[i])

\* The same for the messages handleImport examines: model messages that
\* have the key images.
ImportedModelSelectionValid ==
    \A i \in 1 .. Len(messages) :
        /\ messages[i].role = "model"
        /\ "images" \in DOMAIN messages[i]
        /\ messages[i].selectedImageId # NoSelection
        => SelectionValid(messages[i])

\* C27: the token of a run is set once and never reset: stopGeneration
\* aborts the signal of the run the ref holds, no step clears an aborted
\* signal, and stopGeneration called again, or called while the ref holds no
\* run, changes nothing.
C27_TokenSetOnce ==
    /\ [](/\ StopGeneration(StopGeneration(Hook)) = StopGeneration(Hook)
          /\ abortControllerRef = 0 => StopGeneration(Hook) = Hook
          /\ abortControllerRef # 0 =>
                StopGeneration(Hook).runs[abortControllerRef].aborted)
    /\ [][\A r \in 1 .. Len(runs) : runs[r].aborted => runs'[r].aborted]_vars

C27_Witness ==
    /\ Len(runs) = 2
    /\ runs[1].aborted /\ runs[1].status = "resolved"
    /\ runs[2].aborted /\ runs[2].status = "running"
    /\ abortControllerRef = 0

\* A run that was started, has not settled and has not been cancelled.
Running(r) == runs[r].status = "running" /\ ~runs[r].aborted

\* C29: from the start of a batch until it settles or is stopped,
\* isGenerating is true, whatever other batches do meanwhile.
C29_GeneratingWhileRunning ==
    \A r \in 1 .. Len(runs) : Running(r) => isGenerating

\* C30: while a batch that has not been cancelled is running,
\* abortControllerRef holds its controller.
C30_RefHoldsRunningBatch ==
    \A r \in 1 .. Len(runs) : Running(r) => abortControllerRef = r

\* At least one batch was started and none is pending.
AllSettled ==
    /\ Len(runs) > 0
    /\ \A r \in 1 .. Len(runs) : runs[r].status # "running"

\* C31: once every started batch has settled, isGenerating is false and
\* progress is null.
C31_IdleWhenAllSettled ==
    AllSettled => ~isGenerating /\ shownProgress = NoProgress

\* C32: when the batch call of a run rejects after stopGeneration has
\* aborted that run, onError is not invoked.
C32_NoErrorAfterStop ==
    [][\A r \in 1 .. Len(runs) :
          /\ runs[r].aborted
          /\ runs[r].status = "running"
          /\ runs'[r].status = "rejected"
          => reported' = reported]_vars

\* C37: a call of generateImages or retryGeneration with an empty API key
\* invokes onError once, with an APIKeyError for the given model message,
\* starts no batch call and leaves isGenerating, progress and the abort
\* controller as they are; the pool makes no provider call.
C37_KeylessCallOnlyReports ==
    /\ [](\A id \in {"m", "n"} : \A c \in {0, 1} :
            LET call == GenerateImages(Hook, reported, id, c, FALSE)
            IN /\ call.hook = Hook
               /\ call.reported =
                      Append(reported, [message |-> id, error |-> "APIKeyError"]))
    /\ [][/\ Len(reported') > Len(reported)
          /\ reported'[Len(reported')].error = "APIKeyError"
          => /\ Len(reported') = Len(reported) + 1
             /\ UNCHANGED <<isGenerating, shownProgress, abortControllerRef,
                            runs, calls, sent>>]_vars

C37_Witness ==
    /\ Len(reported) = 2
    /\ reported[1] = [message |-> "m", error |-> "APIKeyError"]
    /\ reported[2] = [message |-> "n", error |-> "APIKeyError"]
    /\ Len(runs) = 1
    /\ runs[1].aborted
    /\ runs[1].status = "running"

\* C33: the text parts of every answer are delivered through onText, whether
\* or not the answer has an image: each slot has had one onText call per text
\* part received; a slot that used up its attempts on text-only answers has
\* had at least one onText call per attempt and holds its single error image.
C33_TextPartsDelivered ==
    /\ \A s \in Slots : texts[s] = textParts[s]
    /\ \A s \in Slots :
           (onlyText[s] /\ calls[s] = MAX_RETRIES + 1 /\ counted[s]) =>
               /\ texts[s] >= MAX_RETRIES + 1
               /\ images[s] = <<ErrorImage>>

C33_Witness ==
    /\ onlyText[0]
    /\ calls[0] = MAX_RETRIES + 1
    /\ counted[0]
    /\ textParts[0] = 5
    /\ texts[0] = 5
    /\ images[0] = <<ErrorImage>>
    /\ result = "resolved"

\* Slot s has delivered its terminal outcome: success images or the error
\* placeholder.
Delivered(s) == HasSuccess(s) \/ HasError(s)

RECURSIVE CallsUpTo(_)
CallsUpTo(n) == IF n = 0 THEN 0 ELSE calls[n - 1] + CallsUpTo(n - 1)

\* The provider calls the run has made.
TotalCalls == CallsUpTo(batchSize)

\* C35: if every provider call returns or fails, a run that has started
\* settles, cancelled or not; it makes at most batchSize * (MAX_RETRIES + 1)
\* provider calls; after the abort no call and no backoff sleep is started,
\* so each worker finishes at most the one it was in.
C35_RunSettles ==
    /\ (result = "pending") ~> (result \in {"resolved", "rejected"})
    /\ [](TotalCalls <= batchSize * (MAX_RETRIES + 1))
    /\ [](aborted => /\ \A s \in Slots : calls[s] = atAbort.calls[s]
                     /\ \A s \in Slots : Len(sleeps[s]) = Len(atAbort.sleeps[s]))

C35_Witness ==
    /\ batchSize = 2
    /\ aborted
    /\ result = "resolved"
    /\ TotalCalls = 2 * (MAX_RETRIES + 1) - 1
    /\ Len(sleeps[1]) = MAX_RETRIES
    /\ ~counted[1]

\* The text part of the turn starts with a legend.
HasLegend ==
    /\ userParts # <<>>
    /\ userParts[1].kind = "text"
    /\ userParts[1].text # <<>>
    /\ userParts[1].text[1] = "LEGEND:"

C38_CurrentSessionListed ==
    /\ sessionState.sessions # <<>>
    /\ Listed(sessionState.sessions, sessionState.currentSessionId)

\* The updates whose batch size updateSettings hands to validateBatchSize
\* and validateBatchSize rejects.
RejectedUpdates ==
    {updates \in Updates :
        /\ "batchSize" \in DOMAIN updates
        /\ updates.batchSize # Undefined
        /\ ValidateBatchSizeThrows(updates.batchSize)}

\* C39: an updateSettings call whose batchSize fails validation keeps the
\* previous settings as a whole: whatever the settings are and whatever other
\* keys the update writes, the call returns the settings it was given.
C39_RejectedUpdateKeepsSettings ==
    \A updates \in RejectedUpdates :
        UpdateSettings(settings, updates) = settings

\* Settings that earlier calls changed in every field, and a rejected update
\* that also writes another aspect ratio and leaves them as they are.
C39_Witness ==
    /\ settings.batchSize = JsInteger(MAX_BATCH_SIZE)
    /\ settings.aspectRatio = "16:9"
    /\ settings.resolution = "2K"
    /\ \E updates \in RejectedUpdates :
          /\ "aspectRatio" \in DOMAIN updates
          /\ updates.aspectRatio # settings.aspectRatio
          /\ UpdateSettings(settings, updates) = settings

====
